---- MODULE Spec2Model ----
(***************************************************************************)
(* Territory scoring pipeline of generate_territory_map.py:                *)
(*   load -> enrich_hospital -> calculate_infrastructure_scores            *)
(*        -> assign_clinical_tiers -> calculate_travel                     *)
(*        -> assign_geographic_access -> map centre -> render_template     *)
(*        -> printed summary                                               *)
(*                                                                         *)
(* A raw spreadsheet cell and every derived field value is a record        *)
(* [k, n, s]: k is the Python type of the value, n its numeric payload and *)
(* s its text, a sequence of one-character strings.                        *)
(*   k = "none"   None                                                     *)
(*   k = "bool"   n = 1 (True) or 0 (False)                                *)
(*   k = "int"    n = the integer                                          *)
(*   k = "float"  n = the value in tenths (2.5 is n = 25)                  *)
(*   k = "inf"    n = 1 (+inf) or -1 (-inf)                                *)
(*   k = "nan"                                                             *)
(*   k = "str"    s = the characters                                       *)
(*   k = "OverflowError"  the call raised instead of returning             *)
(* A hospital record is a function from keys (column names and derived     *)
(* field names) to such values: a Python dict.                             *)
(***************************************************************************)
EXTENDS Integers, Sequences, FiniteSets, TLC

\* ------------------------------------------------------------------------
\* Bounds of the model
\* ------------------------------------------------------------------------
MaxHospitals == 2       \* records in a scored set (specification Spec)
MaxTierSet == 5         \* records in a ranked set (specification SpecTier)
MaxStrokes == 4         \* largest raw 'Strokes Per Year' of a scored set
MaxInt == 2             \* largest magnitude of a raw integer cell
PopStep == 2000         \* spacing of the larger catchment populations
MaxPopSteps == 4        \* number of larger catchment populations
MaxSites == 2           \* records of a travel set (specification SpecTravel)
MaxTeam == 2            \* team members of the config besides the primary base
MaxRows == 2            \* data rows of a sheet (specification SpecLoad)
MaxNamePos == 3         \* rightmost position of the 'Hospital Name' column

\* ------------------------------------------------------------------------
\* Python values
\* ------------------------------------------------------------------------
NoneVal == [k |-> "none", n |-> 0, s |-> <<>>]
BoolVal(b) == [k |-> "bool", n |-> IF b THEN 1 ELSE 0, s |-> <<>>]
IntVal(i) == [k |-> "int", n |-> i, s |-> <<>>]
FloatVal(tenths) == [k |-> "float", n |-> tenths, s |-> <<>>]
InfVal(sign) == [k |-> "inf", n |-> sign, s |-> <<>>]
NanVal == [k |-> "nan", n |-> 0, s |-> <<>>]
StrVal(chars) == [k |-> "str", n |-> 0, s |-> chars]
OverflowError == [k |-> "OverflowError", n |-> 0, s |-> <<>>]

\* bool(v): Python truthiness of a scalar
Truthy(v) ==
  CASE v.k = "none" -> FALSE
    [] v.k = "bool" -> v.n = 1
    [] v.k = "int" -> v.n # 0
    [] v.k = "float" -> v.n # 0
    [] v.k = "inf" -> TRUE
    [] v.k = "nan" -> TRUE
    [] v.k = "str" -> v.s # <<>>
    [] OTHER -> FALSE

\* ------------------------------------------------------------------------
\* Text: str.strip, str.lower, str()
\* ------------------------------------------------------------------------
Whitespace == {" ", "\t", "\n"}
Digits == <<"0", "1", "2", "3", "4", "5", "6", "7", "8", "9">>
UpperCase == <<"A", "B", "C", "D", "E", "F", "G", "H", "I", "J", "K", "L", "M",
               "N", "O", "P", "Q", "R", "S", "T", "U", "V", "W", "X", "Y", "Z">>
LowerCase == <<"a", "b", "c", "d", "e", "f", "g", "h", "i", "j", "k", "l", "m",
               "n", "o", "p", "q", "r", "s", "t", "u", "v", "w", "x", "y", "z">>

RECURSIVE LStrip(_)
LStrip(t) ==
  IF t # <<>> /\ Head(t) \in Whitespace THEN LStrip(Tail(t)) ELSE t

RECURSIVE RStrip(_)
RStrip(t) ==
  IF t # <<>> /\ t[Len(t)] \in Whitespace
    THEN RStrip(SubSeq(t, 1, Len(t) - 1))
    ELSE t

\* str.strip()
Strip(t) == RStrip(LStrip(t))

LowerChar(c) ==
  IF \E i \in 1..26 : UpperCase[i] = c
    THEN LowerCase[CHOOSE i \in 1..26 : UpperCase[i] = c]
    ELSE c

\* str.lower()
Lower(t) == [i \in 1..Len(t) |-> LowerChar(t[i])]

IsDigit(c) == \E i \in 1..10 : Digits[i] = c
DigitVal(c) == (CHOOSE i \in 1..10 : Digits[i] = c) - 1

\* decimal digits of a natural number
RECURSIVE NatText(_)
NatText(i) ==
  IF i < 10 THEN <<Digits[i + 1]>>
  ELSE NatText(i \div 10) \o <<Digits[(i % 10) + 1]>>

IntText(i) == IF i < 0 THEN <<"-">> \o NatText(-i) ELSE NatText(i)

\* str(v)
PyStr(v) ==
  CASE v.k = "none" -> <<"N", "o", "n", "e">>
    [] v.k = "bool" -> IF v.n = 1 THEN <<"T", "r", "u", "e">>
                                   ELSE <<"F", "a", "l", "s", "e">>
    [] v.k = "int" -> IntText(v.n)
    [] v.k = "float" ->
         IF v.n < 0
           THEN <<"-">> \o NatText((-v.n) \div 10) \o <<".">> \o NatText((-v.n) % 10)
           ELSE NatText(v.n \div 10) \o <<".">> \o NatText(v.n % 10)
    [] v.k = "inf" -> IF v.n < 0 THEN <<"-", "i", "n", "f">> ELSE <<"i", "n", "f">>
    [] v.k = "nan" -> <<"n", "a", "n">>
    [] OTHER -> v.s

\* ------------------------------------------------------------------------
\* float(text): optional surrounding whitespace, optional sign, then
\* inf / infinity / nan in any case, or digits with an optional fraction.
\* The result is a float value, or NoneVal when float() raises ValueError.
\* Texts with an exponent, an underscore or more than one fractional digit
\* are outside the modelled inputs.
\* ------------------------------------------------------------------------
RECURSIVE AllDigits(_)
AllDigits(t) == t = <<>> \/ (IsDigit(Head(t)) /\ AllDigits(Tail(t)))

RECURSIVE NatOf(_)
NatOf(t) ==
  IF t = <<>> THEN 0 ELSE 10 * NatOf(SubSeq(t, 1, Len(t) - 1)) + DigitVal(t[Len(t)])

DotAt(t) == IF \E i \in 1..Len(t) : t[i] = "."
              THEN CHOOSE i \in 1..Len(t) : t[i] = "." /\ \A j \in 1..(i - 1) : t[j] # "."
              ELSE 0

\* unsigned decimal text -> tenths, or -1 when it is no number
ParseUnsigned(t) ==
  LET d == DotAt(t)
      ip == IF d = 0 THEN t ELSE SubSeq(t, 1, d - 1)
      fp == IF d = 0 THEN <<>> ELSE SubSeq(t, d + 1, Len(t))
  IN IF AllDigits(ip) /\ AllDigits(fp) /\ (ip # <<>> \/ fp # <<>>)
       THEN 10 * NatOf(ip) + (IF fp = <<>> THEN 0 ELSE DigitVal(fp[1]))
       ELSE -1

ParseFloat(t) ==
  LET b == Strip(t)
      neg == b # <<>> /\ b[1] = "-"
      signed == b # <<>> /\ b[1] \in {"+", "-"}
      body == IF signed THEN Tail(b) ELSE b
      low == Lower(body)
      sgn == IF neg THEN -1 ELSE 1
  IN CASE low \in {<<"i", "n", "f">>, <<"i", "n", "f", "i", "n", "i", "t", "y">>} -> InfVal(sgn)
       [] low = <<"n", "a", "n">> -> NanVal
       [] ParseUnsigned(body) >= 0 -> FloatVal(sgn * ParseUnsigned(body))
       [] OTHER -> NoneVal

\* float(v) for a scalar that is not None; NoneVal stands for ValueError
PyFloat(v) ==
  CASE v.k = "bool" -> FloatVal(10 * v.n)
    [] v.k = "int" -> FloatVal(10 * v.n)
    [] v.k = "float" -> v
    [] v.k = "inf" -> v
    [] v.k = "nan" -> v
    [] v.k = "str" -> ParseFloat(v.s)
    [] OTHER -> NoneVal

\* truncation toward zero of a value in tenths
Trunc(tenths) == IF tenths >= 0 THEN tenths \div 10 ELSE -((-tenths) \div 10)

\* ------------------------------------------------------------------------
\* Helpers (generate_territory_map.py 117-131)
\* ------------------------------------------------------------------------
safe_float(val, default) ==
  IF val.k = "none" THEN default
  ELSE IF PyFloat(val).k = "none" THEN default      \* except ValueError
  ELSE PyFloat(val)

\* int(float("inf")) raises OverflowError, which the except clause
\* (ValueError, TypeError) does not catch; int(float("nan")) raises ValueError.
safe_int(val, default) ==
  IF val.k = "none" THEN default
  ELSE LET f == PyFloat(val)
       IN CASE f.k = "none" -> default
            [] f.k = "nan" -> default
            [] f.k = "inf" -> OverflowError
            [] OTHER -> IntVal(Trunc(f.n))

TrueStrings == {<<"t", "r", "u", "e">>, <<"y", "e", "s">>, <<"1">>, <<"y">>}

safe_bool_NoLower(val, default) ==
  IF val.k = "none" THEN default
  ELSE IF val.k = "bool" THEN val
  ELSE IF val.k = "str" THEN BoolVal(val.s \in TrueStrings)
  ELSE BoolVal(Truthy(val))

safe_bool(val, default) ==
  IF val.k = "none" THEN default
  ELSE IF val.k = "bool" THEN val
  ELSE IF val.k = "str" THEN BoolVal(Lower(val.s) \in TrueStrings)
  ELSE BoolVal(Truthy(val))

\* dict.get(key, default)
Get(h, key, default) == IF key \in DOMAIN h THEN h[key] ELSE default

\* Python round(num / den) for den # 0: round half to even on the exact quotient
RoundHalfEven(num, den) ==
  LET a == IF den < 0 THEN -num ELSE num
      b == IF den < 0 THEN -den ELSE den
      q == a \div b
      r == a % b
  IN IF 2 * r < b THEN q
     ELSE IF 2 * r > b THEN q + 1
     ELSE IF q % 2 = 0 THEN q ELSE q + 1

Max(a, b) == IF a >= b THEN a ELSE b
Min(a, b) == IF a <= b THEN a ELSE b

\* ------------------------------------------------------------------------
\* Constants (generate_territory_map.py 29-77)
\* ------------------------------------------------------------------------
REQUIRED_COLUMNS ==
  {"Hospital Name", "Short Name", "Address", "City", "State", "County",
   "Latitude", "Longitude", "Phone", "Licensed Beds", "Affiliation",
   "Buy Group/GPO", "Stroke Certification", "Strokes Per Year"}

OPTIONAL_COLUMNS ==
  {"IR Phone", "Cert Body", "Neurosurgery Fellowship", "Neuro IR Fellowship",
   "Catchment Population", "Population 65+", "Median Age", "Life Expectancy",
   "CAH Status", "Telestroke Capable", "24/7 Thrombectomy",
   "tPA Available", "Neuro ICU", "CT Scanner", "Spoke Hospital",
   "A-Fib Prevalence", "A-Fib Absolute Count", "MMAE Score",
   "Clinical Benefit Radius (km)",
   "Medevac Available", "Road Access",
   "Comment"}

CSC == <<"C", "S", "C">>
PSC == <<"P", "S", "C">>
TSC == <<"T", "S", "C">>
TCC == <<"T", "C", "C">>
NoneText == <<"N", "o", "n", "e">>
EmptyText == <<>>

\* Colours and labels are fixed display texts: each is kept as one chunk.
CERT_COLORS ==
  (CSC :> <<"#EB1700">>) @@ (PSC :> <<"#F59E0B">>) @@ (TSC :> <<"#0077C8">>) @@
  (TCC :> <<"#0077C8">>) @@ (NoneText :> <<"#6B7280">>) @@ (EmptyText :> <<"#6B7280">>)

CERT_LABELS ==
  (CSC :> <<"Comprehensive Stroke Center">>) @@
  (PSC :> <<"Primary Stroke Center">>) @@
  (TSC :> <<"Thrombectomy-Capable Stroke Center">>) @@
  (TCC :> <<"Thrombectomy-Capable Center">>) @@
  (NoneText :> <<"No Certification">>) @@ (EmptyText :> <<"No Certification">>)

\* Rates that are fractions in the source are kept as percentages.
\* the 65+ cohort weighted like everyone else
EPIRATES_FlatAgeWeight ==
  [ischemic_per_100k |-> 216, lvo_pct_of_ischemic |-> 21, mt_eligibility_pct |-> 70,
   avm_aneurysm_per_100k |-> 12, hemorrhagic_per_100k |-> 12,
   hemorrhagic_sah_pct |-> 5, hemorrhagic_ich_pct |-> 80, hemorrhagic_other_pct |-> 15,
   age_65_multiplier_x2 |-> 2, default_65_plus_pct |-> 17]

EPIRATES ==
  [ischemic_per_100k |-> 216, lvo_pct_of_ischemic |-> 21, mt_eligibility_pct |-> 70,
   avm_aneurysm_per_100k |-> 12, hemorrhagic_per_100k |-> 12,
   hemorrhagic_sah_pct |-> 5, hemorrhagic_ich_pct |-> 80, hemorrhagic_other_pct |-> 15,
   age_65_multiplier_x2 |-> 5, default_65_plus_pct |-> 17]

INFRA_WEIGHTS ==
  [cert_csc |-> 25, cert_psc |-> 20, cert_tsc |-> 15, cert_none |-> 5,
   thrombectomy_24_7 |-> 15, neuro_icu |-> 12, cah |-> 10,
   ct_scanner |-> 8, telestroke |-> 8, tpa |-> 5,
   nsg_fellowship |-> 7, nir_fellowship |-> 8, stroke_volume_max |-> 10]

\* ------------------------------------------------------------------------
\* enrich_hospital (generate_territory_map.py 136-214)
\* ------------------------------------------------------------------------
\* str(h.get(col, ""))
StrField(h, col) == StrVal(PyStr(Get(h, col, StrVal(<<>>))))

\* str(h.get(col, "")) if h.get(col) else ""
StrFieldIfSet(h, col) ==
  IF Truthy(Get(h, col, NoneVal)) THEN StrField(h, col) ELSE StrVal(<<>>)

\* h["cert"] (lines 155-156)
NormalizeCert_NoFallback(h) ==
  Strip(PyStr(Get(h, "Stroke Certification", StrVal(NoneText))))

NormalizeCert(h) ==
  LET c == Strip(PyStr(Get(h, "Stroke Certification", StrVal(NoneText))))
  IN IF c \notin DOMAIN CERT_COLORS THEN NoneText ELSE c

IntColumns ==
  {"Licensed Beds", "Strokes Per Year", "Catchment Population", "Population 65+",
   "A-Fib Absolute Count"}

\* enrich_hospital leaves by an uncaught OverflowError of a safe_int call
EnrichRaises(h) ==
  \E col \in IntColumns : safe_int(Get(h, col, NoneVal), IntVal(0)) = OverflowError

\* Demographics and stroke epidemiology (lines 168-193).
\* int(pop_total * 0.17) is floor(17 * pop_total / 100) for pop_total > 0.
\* The binary products agree with the exact ones below wherever the exact
\* value is no tie; round(x, 1) of pop_65_pct can only tie when pop_total is
\* a multiple of 16 and round(lvo * 0.70) first differs at lvo = 45.
Epidemiology(h) ==
  LET pop_total == safe_int(Get(h, "Catchment Population", NoneVal), IntVal(0)).n
      raw_65 == safe_int(Get(h, "Population 65+", NoneVal), IntVal(0)).n
      pop_65 == IF pop_total > 0 /\ raw_65 = 0
                  THEN (pop_total * EPIRATES.default_65_plus_pct) \div 100
                  ELSE raw_65
      under == Max(0, pop_total - pop_65)
      ep == IF pop_total > 0
              THEN RoundHalfEven(2 * under + pop_65 * EPIRATES.age_65_multiplier_x2, 2)
              ELSE 0
      isch == RoundHalfEven(ep * EPIRATES.ischemic_per_100k, 100000)
      lvo == RoundHalfEven(isch * EPIRATES.lvo_pct_of_ischemic, 100)
      hem == RoundHalfEven(ep * EPIRATES.hemorrhagic_per_100k, 100000)
      pos == ep > 0
  IN ("pop_total" :> IntVal(pop_total)) @@
     ("pop_65_plus" :> IntVal(pop_65)) @@
     ("pop_under_65" :> IntVal(under)) @@
     ("pop_65_pct" :> IF pop_total > 0
                        THEN FloatVal(RoundHalfEven(1000 * pop_65, pop_total))
                        ELSE IntVal(0)) @@
     ("effective_pop" :> IntVal(ep)) @@
     ("ischemic_volume" :> IntVal(IF pos THEN isch ELSE 0)) @@
     ("lvo_volume" :> IntVal(IF pos THEN lvo ELSE 0)) @@
     ("mt_eligible" :>
        IntVal(IF pos THEN RoundHalfEven(lvo * EPIRATES.mt_eligibility_pct, 100) ELSE 0)) @@
     ("avm_aneurysm_volume" :>
        IntVal(IF pos THEN RoundHalfEven(ep * EPIRATES.avm_aneurysm_per_100k, 100000) ELSE 0)) @@
     ("hemorrhagic_volume" :> IntVal(IF pos THEN hem ELSE 0)) @@
     ("sah_volume" :>
        IntVal(IF pos THEN RoundHalfEven(hem * EPIRATES.hemorrhagic_sah_pct, 100) ELSE 0)) @@
     ("ich_volume" :>
        IntVal(IF pos THEN RoundHalfEven(hem * EPIRATES.hemorrhagic_ich_pct, 100) ELSE 0)) @@
     ("hemorrhagic_other" :>
        IntVal(IF pos THEN RoundHalfEven(hem * EPIRATES.hemorrhagic_other_pct, 100) ELSE 0)) @@
     ("total_stroke_volume" :> IntVal(IF pos THEN isch + hem ELSE 0))

\* the fields enrich_hospital assigns, in a record that does not raise
EnrichedFields(h) ==
  LET cert == NormalizeCert(h)
      FlagOf(col) == safe_bool(Get(h, col, NoneVal), BoolVal(FALSE))
      FloatOf(col) == safe_float(Get(h, col, NoneVal), FloatVal(0))
      IntOf(col) == safe_int(Get(h, col, NoneVal), IntVal(0))
  IN ("name" :> StrField(h, "Hospital Name")) @@
     ("short_name" :> StrField(h, "Short Name")) @@
     ("address" :> StrField(h, "Address")) @@
     ("city" :> StrField(h, "City")) @@
     ("state" :> StrField(h, "State")) @@
     ("county" :> StrField(h, "County")) @@
     ("phone" :> StrField(h, "Phone")) @@
     ("ir_phone" :> StrFieldIfSet(h, "IR Phone")) @@
     ("lat" :> FloatOf("Latitude")) @@
     ("lng" :> FloatOf("Longitude")) @@
     ("beds" :> IntOf("Licensed Beds")) @@
     ("affiliation" :> StrField(h, "Affiliation")) @@
     ("gpo" :> StrField(h, "Buy Group/GPO")) @@
     ("strokes_yr" :> IntOf("Strokes Per Year")) @@
     ("comment" :> StrFieldIfSet(h, "Comment")) @@
     ("cert" :> StrVal(cert)) @@
     ("cert_body" :> StrFieldIfSet(h, "Cert Body")) @@
     ("cert_color" :> StrVal(Get(CERT_COLORS, cert, <<"#6B7280">>))) @@
     ("cert_label" :> StrVal(Get(CERT_LABELS, cert, <<"No Certification">>))) @@
     ("nsg_fellowship" :> FlagOf("Neurosurgery Fellowship")) @@
     ("nir_fellowship" :> FlagOf("Neuro IR Fellowship")) @@
     ("median_age" :> FloatOf("Median Age")) @@
     ("life_expectancy" :> FloatOf("Life Expectancy")) @@
     Epidemiology(h) @@
     ("cah" :> FlagOf("CAH Status")) @@
     ("telestroke" :> FlagOf("Telestroke Capable")) @@
     ("thrombectomy_24_7" :> FlagOf("24/7 Thrombectomy")) @@
     ("tpa_available" :> FlagOf("tPA Available")) @@
     ("neuro_icu" :> FlagOf("Neuro ICU")) @@
     ("ct_scanner" :> FlagOf("CT Scanner")) @@
     ("spoke_hospital" :> FlagOf("Spoke Hospital")) @@
     ("afib_prevalence" :> FloatOf("A-Fib Prevalence")) @@
     ("afib_count" :> IntOf("A-Fib Absolute Count")) @@
     ("mmae_score" :> FloatOf("MMAE Score")) @@
     ("clinical_benefit_radius" :> FloatOf("Clinical Benefit Radius (km)")) @@
     ("medevac_available" :> FlagOf("Medevac Available")) @@
     ("road_access" :> safe_bool(Get(h, "Road Access", NoneVal), BoolVal(TRUE)))

\* the assignments h[k] = ... overwrite or add keys of the same dict
enrich_hospital(h) == EnrichedFields(h) @@ h

\* ------------------------------------------------------------------------
\* calculate_infrastructure_scores (generate_territory_map.py 219-237)
\* ------------------------------------------------------------------------
RECURSIVE SeqMax(_)
SeqMax(xs) ==
  IF Len(xs) = 1 THEN xs[1] ELSE Max(xs[1], SeqMax(Tail(xs)))

\* max((h["strokes_yr"] for h in hospitals), default=1) or 1
MaxStrokesOf(hs) ==
  LET m == IF Len(hs) = 0 THEN 1
           ELSE SeqMax([i \in 1..Len(hs) |-> hs[i]["strokes_yr"].n])
  IN IF m = 0 THEN 1 ELSE m

\* cert_map.get(h["cert"], INFRA_WEIGHTS["cert_none"])
CertWeight(cert) ==
  CASE cert = CSC -> INFRA_WEIGHTS.cert_csc
    [] cert = PSC -> INFRA_WEIGHTS.cert_psc
    [] cert = TSC -> INFRA_WEIGHTS.cert_tsc
    [] cert = TCC -> INFRA_WEIGHTS.cert_tsc
    [] OTHER -> INFRA_WEIGHTS.cert_none

\* the body of the loop: the score is built up line by line
InfraScore_NoClamp(h, max_strokes) ==
  LET s0 == CertWeight(h["cert"].s)
      s1 == s0 + IF Truthy(h["thrombectomy_24_7"]) THEN INFRA_WEIGHTS.thrombectomy_24_7 ELSE 0
      s2 == s1 + IF Truthy(h["neuro_icu"]) THEN INFRA_WEIGHTS.neuro_icu ELSE 0
      s3 == s2 + IF Truthy(h["cah"]) THEN INFRA_WEIGHTS.cah ELSE 0
      s4 == s3 + IF Truthy(h["ct_scanner"]) THEN INFRA_WEIGHTS.ct_scanner ELSE 0
      s5 == s4 + IF Truthy(h["telestroke"]) THEN INFRA_WEIGHTS.telestroke ELSE 0
      s6 == s5 + IF Truthy(h["tpa_available"]) THEN INFRA_WEIGHTS.tpa ELSE 0
      s7 == s6 + IF Truthy(h["nsg_fellowship"]) THEN INFRA_WEIGHTS.nsg_fellowship ELSE 0
      s8 == s7 + IF Truthy(h["nir_fellowship"]) THEN INFRA_WEIGHTS.nir_fellowship ELSE 0
      s9 == s8 + Min(INFRA_WEIGHTS.stroke_volume_max,
                     RoundHalfEven(h["strokes_yr"].n * INFRA_WEIGHTS.stroke_volume_max,
                                   max_strokes))
  IN s9

\* the score is added to the one the record already carries
InfraScore_Accumulate(h, max_strokes) ==
  Min(Get(h, "infrastructure_score", IntVal(0)).n + InfraScore_NoClamp(h, max_strokes), 100)

InfraScore(h, max_strokes) ==
  LET s0 == CertWeight(h["cert"].s)
      s1 == s0 + IF Truthy(h["thrombectomy_24_7"]) THEN INFRA_WEIGHTS.thrombectomy_24_7 ELSE 0
      s2 == s1 + IF Truthy(h["neuro_icu"]) THEN INFRA_WEIGHTS.neuro_icu ELSE 0
      s3 == s2 + IF Truthy(h["cah"]) THEN INFRA_WEIGHTS.cah ELSE 0
      s4 == s3 + IF Truthy(h["ct_scanner"]) THEN INFRA_WEIGHTS.ct_scanner ELSE 0
      s5 == s4 + IF Truthy(h["telestroke"]) THEN INFRA_WEIGHTS.telestroke ELSE 0
      s6 == s5 + IF Truthy(h["tpa_available"]) THEN INFRA_WEIGHTS.tpa ELSE 0
      s7 == s6 + IF Truthy(h["nsg_fellowship"]) THEN INFRA_WEIGHTS.nsg_fellowship ELSE 0
      s8 == s7 + IF Truthy(h["nir_fellowship"]) THEN INFRA_WEIGHTS.nir_fellowship ELSE 0
      s9 == s8 + Min(INFRA_WEIGHTS.stroke_volume_max,
                     RoundHalfEven(h["strokes_yr"].n * INFRA_WEIGHTS.stroke_volume_max,
                                   max_strokes))
  IN Min(s9, 100)

calculate_infrastructure_scores(hs) ==
  LET max_strokes == MaxStrokesOf(hs)
  IN [i \in 1..Len(hs) |->
        ("infrastructure_score" :> IntVal(InfraScore(hs[i], max_strokes))) @@ hs[i]]

\* ------------------------------------------------------------------------
\* assign_clinical_tiers (generate_territory_map.py 240-248)
\* ------------------------------------------------------------------------
\* the key with its parts swapped: (strokes_yr, infrastructure_score)
KeyGreater_StrokesFirst(x, y) ==
  \/ x["strokes_yr"].n > y["strokes_yr"].n
  \/ /\ x["strokes_yr"].n = y["strokes_yr"].n
     /\ x["infrastructure_score"].n > y["infrastructure_score"].n

\* x sorts strictly before y under key (infrastructure_score, strokes_yr), reverse=True
KeyGreater(x, y) ==
  \/ x["infrastructure_score"].n > y["infrastructure_score"].n
  \/ /\ x["infrastructure_score"].n = y["infrastructure_score"].n
     /\ x["strokes_yr"].n > y["strokes_yr"].n

\* records with equal keys in reversed input order (sort ascending, then reverse)
SortedIndex_TiesReversed(hs, i) ==
  Cardinality({j \in 1..Len(hs) :
                 \/ KeyGreater(hs[j], hs[i])
                 \/ (~KeyGreater(hs[i], hs[j]) /\ j > i)})

\* index (from 0) of hs[i] in sorted(hs, key=..., reverse=True): the sort is
\* stable, records with equal keys keep their input order
SortedIndex(hs, i) ==
  Cardinality({j \in 1..Len(hs) :
                 \/ KeyGreater(hs[j], hs[i])
                 \/ (~KeyGreater(hs[i], hs[j]) /\ j < i)})

\* t1, t2 = max(1, n // 3), max(2, 2 * n // 3)
TierCut1_Ceil(n) == Max(1, (n + 2) \div 3)
TierCut1(n) == Max(1, n \div 3)
TierCut2_NoMin(n) == (2 * n) \div 3
TierCut2(n) == Max(2, (2 * n) \div 3)

TierLabels ==
  <<<<"High Complexity Hub">>, <<"Regional Center">>, <<"Basic Capability">>>>

\* 1 if i < t1 else (2 if i < t2 else 3)
TierOf_TwoBands(i, n) == IF i < TierCut1(n) THEN 1 ELSE 3
TierOf(i, n) == IF i < TierCut1(n) THEN 1 ELSE (IF i < TierCut2(n) THEN 2 ELSE 3)

assign_clinical_tiers(hs) ==
  [i \in 1..Len(hs) |->
     LET tier == TierOf(SortedIndex(hs, i), Len(hs))
     IN ("clinical_tier" :> IntVal(tier)) @@
        ("clinical_tier_label" :> StrVal(TierLabels[tier])) @@ hs[i]]

\* ------------------------------------------------------------------------
\* haversine, calculate_travel (generate_territory_map.py 263-282)
\* Coordinates are integers in thousandths of a degree.  haversine is modelled
\* where it has a closed form: two points on one meridian, or two points on
\* the equator, at most 60 degrees apart.  There the great-circle distance is
\* 3959 * pi / 180 miles per degree of arc, and the model carries the arc.
\* ------------------------------------------------------------------------
Abs(x) == IF x < 0 THEN -x ELSE x

\* a float of the record (tenths) as thousandths of a degree
Mdeg(v) == 100 * v.n

MaxArc == 60000

\* arc between the two points, in thousandths of a degree
haversine(lat1, lon1, lat2, lon2) ==
  CASE lon1 = lon2 /\ Abs(lat2 - lat1) <= MaxArc -> Abs(lat2 - lat1)
    [] lat1 = 0 /\ lat2 = 0 /\ Abs(lon2 - lon1) <= MaxArc -> Abs(lon2 - lon1)

\* round(arc * (hi / 10^3 + mid / 10^6 + lo / 10^9)): the factor is irrational,
\* so no product of a positive arc is a tie; the sum is kept in parts below 2^31
ArcRound(arc, hi, mid, lo) ==
  LET a == arc * hi
      b == arc * mid
      frac == (a % 1000) * 1000000 + (b % 1000000) * 1000 + arc * lo
  IN (a \div 1000) + (b \div 1000000) + ((frac \div 100000000) + 5) \div 10

\* round(min_dist * 1.3, 1) in tenths of a mile:
\* 3959 * pi / 180000 * 1.3 * 10 = 0.898268606... per thousandth of a degree
TravelMiles(arc) == ArcRound(arc, 898, 268, 606)

\* round(min_dist * 1.3 / 55 * 60) in minutes:
\* 3959 * pi / 180000 * 1.3 / 55 * 60 = 0.097992938... per thousandth of a degree
TravelTime(arc) == ArcRound(arc, 97, 992, 939)

\* min_dist: float("inf") until a base has been measured
NoDist == [finite |-> FALSE, arc |-> 0]
Dist(arc) == [finite |-> TRUE, arc |-> arc]

\* d < min_dist
DistLess_OrEqual(d, m) == d.finite /\ (~m.finite \/ d.arc <= m.arc)
DistLess(d, m) == d.finite /\ (~m.finite \/ d.arc < m.arc)

\* team = [primary base] + config.get("team_members", [])
TeamOf(cfg) ==
  <<[lat |-> cfg.rep_base_lat, lng |-> cfg.rep_base_lng, name |-> cfg.rep_name]>>
    \o cfg.team_members

\* for tl in team: d = haversine(...); if d < min_dist: min_dist, closest = d, tl["name"]
RECURSIVE ScanTeam(_, _, _, _, _)
ScanTeam(h, team, i, min_dist, closest) ==
  IF i > Len(team) THEN [min_dist |-> min_dist, closest |-> closest]
  ELSE LET d == Dist(haversine(Mdeg(h["lat"]), Mdeg(h["lng"]), team[i].lat, team[i].lng))
       IN IF DistLess(d, min_dist)
            THEN ScanTeam(h, team, i + 1, d, team[i].name)
            ELSE ScanTeam(h, team, i + 1, min_dist, closest)

\* a non-finite coordinate ends calculate_travel: math.sin(inf) raises
\* ValueError; with nan no base is nearer than inf and round(inf) raises
\* OverflowError
TravelError(h) ==
  IF h["lat"].k = "inf" \/ h["lng"].k = "inf" THEN "ValueError"
  ELSE IF h["lat"].k = "nan" \/ h["lng"].k = "nan" THEN "OverflowError"
  ELSE ""

TravelFields(h, team) ==
  LET r == ScanTeam(h, team, 1, NoDist, team[1].name)
  IN ("travel_miles" :> FloatVal(TravelMiles(r.min_dist.arc))) @@
     ("travel_time_min" :> IntVal(TravelTime(r.min_dist.arc))) @@
     ("closest_team_member" :> StrVal(r.closest))

calculate_travel(hs, cfg) ==
  [i \in 1..Len(hs) |-> TravelFields(hs[i], TeamOf(cfg)) @@ hs[i]]

\* ------------------------------------------------------------------------
\* assign_geographic_access (generate_territory_map.py 251-258)
\* ------------------------------------------------------------------------
AccessOf_Inclusive(t) ==
  IF t <= 30 THEN <<"Local">>
  ELSE IF t <= 120 THEN <<"Short">>
  ELSE IF t <= 240 THEN <<"Long">>
  ELSE <<"Flight Required">>

AccessOf(t) ==
  IF t < 30 THEN <<"Local">>
  ELSE IF t < 120 THEN <<"Short">>
  ELSE IF t < 240 THEN <<"Long">>
  ELSE <<"Flight Required">>

assign_geographic_access(hs) ==
  [i \in 1..Len(hs) |->
     ("geographic_access" :> StrVal(AccessOf(Get(hs[i], "travel_time_min", IntVal(0)).n)))
       @@ hs[i]]

\* ------------------------------------------------------------------------
\* serialize_hospital, render_template (generate_territory_map.py 287-339)
\* ------------------------------------------------------------------------
SerializeKeys ==
  {"name", "short_name", "address", "city", "state", "county", "lat", "lng",
   "phone", "ir_phone", "beds", "affiliation", "gpo",
   "cert", "cert_body", "cert_color", "cert_label",
   "nsg_fellowship", "nir_fellowship",
   "strokes_yr", "pop_total", "pop_65_plus", "pop_under_65", "pop_65_pct",
   "effective_pop", "median_age", "life_expectancy",
   "ischemic_volume", "lvo_volume", "mt_eligible", "avm_aneurysm_volume",
   "hemorrhagic_volume", "sah_volume", "ich_volume", "hemorrhagic_other",
   "total_stroke_volume",
   "afib_prevalence", "afib_count", "mmae_score", "clinical_benefit_radius",
   "cah", "telestroke", "thrombectomy_24_7", "tpa_available", "neuro_icu",
   "ct_scanner", "spoke_hospital",
   "infrastructure_score", "clinical_tier", "clinical_tier_label",
   "medevac_available", "road_access", "geographic_access",
   "travel_miles", "travel_time_min", "closest_team_member", "comment"}

\* the whole dict instead of the listed keys
serialize_hospital_AllKeys(h) == h

\* {k: h.get(k) for k in keys}
serialize_hospital(h) == [k \in SerializeKeys |-> Get(h, k, NoneVal)]

\* sorted(hospitals, key=..., reverse=True) as the list of input positions
SortedOrder(hs) ==
  [p \in 1..Len(hs) |-> CHOOSE i \in 1..Len(hs) : SortedIndex(hs, i) = p - 1]

Sum(f, S) ==
  LET RECURSIVE Acc(_)
      Acc(T) == IF T = {} THEN 0
                ELSE LET x == CHOOSE y \in T : TRUE IN f[x] + Acc(T \ {x})
  IN Acc(S)

\* the keyword arguments of template.render the claims speak of
render_template(hs, cfg) ==
  LET order == SortedOrder(hs)
  IN [hospitals |-> order,
      hospitals_json |-> [p \in 1..Len(hs) |-> serialize_hospital(hs[order[p]])],
      hospital_count |-> Len(hs),
      avg_infra |-> IF Len(hs) > 0
                      THEN RoundHalfEven(Sum([i \in 1..Len(hs) |->
                                                hs[i]["infrastructure_score"].n],
                                             1..Len(hs)), Len(hs))
                      ELSE 0]

\* ------------------------------------------------------------------------
\* load_excel (generate_territory_map.py 82-97)
\* A sheet is [header, rows]: the cells of row 1 and the value tuples of the
\* rows below it.  The text of a header cell is a sequence of pieces, each a
\* whitespace character or a run of other characters.
\* ------------------------------------------------------------------------
RECURSIVE Concat(_)
Concat(t) == IF t = <<>> THEN "" ELSE Head(t) \o Concat(Tail(t))

\* str(c.value).strip() if c.value else ""
HeaderKey(cell) == IF Truthy(cell) THEN Concat(Strip(PyStr(cell))) ELSE ""

Range(f) == {f[i] : i \in DOMAIN f}

\* {headers[i]: row[i] if i < len(row) else None for i in range(len(headers))}:
\* of two columns with one header the later one is kept
RecordOf(headers, row) ==
  [k \in Range(headers) |->
     LET i == CHOOSE j \in DOMAIN headers :
                /\ headers[j] = k
                /\ \A m \in DOMAIN headers : headers[m] = k => m <= j
     IN IF i <= Len(row) THEN row[i] ELSE NoneVal]

\* if not row[0]: continue
KeepRow(headers, row) == Truthy(row[1])

RECURSIVE KeptRecords(_, _)
KeptRecords(headers, rows) ==
  IF rows = <<>> THEN <<>>
  ELSE (IF KeepRow(headers, Head(rows)) THEN <<RecordOf(headers, Head(rows))>> ELSE <<>>)
         \o KeptRecords(headers, Tail(rows))

\* the records returned, or the exit on a missing required column
load_excel(sh) ==
  LET headers == [i \in DOMAIN sh.header |-> HeaderKey(sh.header[i])]
      missing == REQUIRED_COLUMNS \ Range(headers)
  IN IF missing # {} THEN [exit |-> TRUE, hospitals |-> <<>>]
     ELSE [exit |-> FALSE, hospitals |-> KeptRecords(headers, sh.rows)]

\* ------------------------------------------------------------------------
\* State: the list of hospital dicts main() works on, the stage reached,
\* the config dict, the exception that ended the run, the arguments handed to
\* the template, and the records as load_excel returned them
\* (main, generate_territory_map.py 366-411)
\* ------------------------------------------------------------------------
VARIABLES hospitals, pc, config, exc, rendered, loaded, sheet

vars == <<hospitals, pc, config, exc, rendered, loaded, sheet>>

\* load_config without a config file; base coordinates in thousandths of a
\* degree, map centre in ten-thousandths (round(x, 4))
DefaultConfig ==
  [rep_name |-> <<"Territory Rep">>, rep_base_lat |-> 0, rep_base_lng |-> 0,
   map_center_lat |-> 0, map_center_lng |-> 0, team_members |-> <<>>]

NotRendered == [hospitals |-> <<>>, hospitals_json |-> <<>>,
                hospital_count |-> 0, avg_infra |-> 0]

\* an uncaught exception ends main(): its type and the stage that raised it
NoException == [type |-> "", stage |-> ""]
Raised(type, stage) == [type |-> type, stage |-> stage]

\* main() starts with the sheet of the Excel file and the loaded config
Started(cfg) ==
  /\ pc = "start"
  /\ hospitals = <<>>
  /\ config = cfg
  /\ exc = NoException
  /\ rendered = NotRendered
  /\ loaded = <<>>

\* scoring modes main() runs: calculate_infrastructure_scores is the only scorer
ScoringSchemes == {"infrastructure"}

\* ---- rows load_excel can return: every required column is a key ----------
BaseRow ==
  [c \in REQUIRED_COLUMNS |-> IF c = "Hospital Name" THEN StrVal(<<"H">>) ELSE NoneVal]

FlagColumns ==
  {"24/7 Thrombectomy", "Neuro ICU", "CAH Status", "CT Scanner",
   "Telestroke Capable", "tPA Available", "Neurosurgery Fellowship",
   "Neuro IR Fellowship"}

Foo == <<"F", "o", "o">>

ScoreRow(cert, strokes, flags) ==
  [c \in FlagColumns |-> BoolVal(c \in flags)] @@
  ("Stroke Certification" :> StrVal(cert)) @@
  ("Strokes Per Year" :> IntVal(strokes)) @@ BaseRow

StrokeRange == (-1)..MaxStrokes

\* one record: any certification and volume, or any set of capability flags
SingleRows ==
  {ScoreRow(c, s, f) : c \in {CSC, PSC, TSC, TCC, Foo}, s \in StrokeRange,
                       f \in {{}, FlagColumns}}
  \cup {ScoreRow(c, 0, f) : c \in {CSC, Foo}, f \in SUBSET FlagColumns}

\* records of a set: no flag or every flag, a negative, zero, small or the
\* largest volume
SetStrokes == {-1, 0, 1, MaxStrokes}

SetRows ==
  {ScoreRow(c, s, f) : c \in {CSC, Foo}, s \in SetStrokes, f \in {{}, FlagColumns}}

SeqsUpTo(S, n) == UNION {[1..m -> S] : m \in 0..n}

\* the elements of a set of column names, one after the other
RECURSIVE SetToSeq(_)
SetToSeq(S) ==
  IF S = {} THEN <<>>
  ELSE LET x == CHOOSE y \in S : TRUE IN <<x>> \o SetToSeq(S \ {x})

\* a header cell spelling a column name
HeaderCell(name) == StrVal(<<name>>)

\* the sheet whose rows load as the given records: 'Hospital Name' is the
\* first column, as in the workbooks build_hospitals.py and
\* create_sample_excel.py write
SheetOf(records) ==
  LET cols == IF records = <<>> THEN REQUIRED_COLUMNS ELSE DOMAIN records[1]
      names == <<"Hospital Name">> \o SetToSeq(cols \ {"Hospital Name"})
  IN [header |-> [j \in DOMAIN names |-> HeaderCell(names[j])],
      rows |-> [i \in DOMAIN records |-> [j \in DOMAIN names |-> records[i][names[j]]]]]

Init ==
  /\ \/ \E records \in SeqsUpTo(SetRows, MaxHospitals) : sheet = SheetOf(records)
     \/ \E records \in [1..1 -> SingleRows] : sheet = SheetOf(records)
  /\ Started(DefaultConfig)

\* ---- ranked sets: few distinct keys, more records -------------------------
TierRows == {ScoreRow(c, s, {}) : c \in {CSC, Foo}, s \in 0..1}

InitTier ==
  /\ \E records \in SeqsUpTo(TierRows, MaxTierSet) : sheet = SheetOf(records)
  /\ Started(DefaultConfig)

\* ---- one record, one column holding any raw cell --------------------------
TextSamples ==
  {<<>>, <<" ">>, <<" ", "\t">>,
   <<"y", "e", "s">>, <<"Y", "E", "S">>, <<" ", "y", "e", "s", " ">>, <<"y">>, <<"Y">>,
   <<"t", "r", "u", "e">>, <<"T", "r", "u", "e">>, <<"1">>, <<"0">>,
   <<"n", "o">>, <<"f", "a", "l", "s", "e">>, <<"o", "n">>,
   CSC, PSC, TSC, TCC, <<" ", "P", "S", "C", " ">>, <<"c", "s", "c">>, Foo, NoneText,
   <<"1", "2">>, <<"-", "3">>, <<"2", ".", "5">>, <<" ", "7", " ">>,
   <<"i", "n", "f">>, <<"-", "I", "n", "f">>, <<"n", "a", "n">>, <<"a", "b", "c">>,
   <<" ", "M", "a", "i", "n", " ", "S", "t", " ">>}

RawCells ==
  {NoneVal, BoolVal(TRUE), BoolVal(FALSE), FloatVal(25), FloatVal(-25), FloatVal(0),
   InfVal(1), InfVal(-1), NanVal}
  \cup {IntVal(i) : i \in (-MaxInt)..MaxInt}
  \cup {StrVal(t) : t \in TextSamples}

\* every recognized column and two unrecognized ones; a header may spell any
\* text, the name of a derived field included
Columns == REQUIRED_COLUMNS \cup OPTIONAL_COLUMNS \cup {"Notes", "name"}

InitCells ==
  /\ \E col \in Columns, v \in RawCells : sheet = SheetOf(<<(col :> v) @@ BaseRow>>)
  /\ Started(DefaultConfig)

\* ---- catchment populations: one record, or two that differ in them only ---
PopRow(total, aged) ==
  ("Catchment Population" :> IntVal(total)) @@
  ("Population 65+" :> IntVal(aged)) @@ BaseRow

\* percentages of the catchment given as its 65+ count (0: left to imputation)
ShareSamples == {0, 10, 16, 50, 100, 150}

PopRows ==
  {PopRow(t, a) : t \in (-MaxInt)..MaxInt, a \in (-MaxInt)..MaxInt}
  \cup {PopRow(k * PopStep, (k * PopStep * sh) \div 100) :
          k \in 1..MaxPopSteps, sh \in ShareSamples}

\* the record of the worked example
ScenarioRow == PopRow(680000, 108800)

InitPop ==
  /\ \/ \E records \in [1..1 -> PopRows \cup {ScenarioRow}] : sheet = SheetOf(records)
     \/ \E records \in [1..2 -> PopRows] : sheet = SheetOf(records)
  /\ Started(DefaultConfig)

\* ---- sites and bases on one meridian ---------------------------------------
TravelRow(lat) == ("Latitude" :> FloatVal(lat)) @@ BaseRow

\* latitudes of the sites: 0 and 10 degrees, in tenths
SiteLats == {0, 100}

\* latitudes of the bases, in thousandths of a degree
BaseLats == {0, 300, 310, -310, 11220, 12450}

\* the k-th entry of config["team_members"]
TeamMember(k, lat) == [lat |-> lat, lng |-> 0, name |-> <<"T">> \o NatText(k)]

TeamLists ==
  UNION {{[k \in 1..m |-> TeamMember(k, l[k])] : l \in [1..m -> BaseLats]} : m \in 0..MaxTeam}

\* latitudes of the primary base: at a site, near one, far from both
RepLats == {0, 300, 12450}

\* a config file that sets the primary base and the team, and one that also
\* sets the map centre
TravelConfigs ==
  {[DefaultConfig EXCEPT !.rep_name = <<"R">>, !.rep_base_lat = b, !.team_members = t] :
     b \in RepLats, t \in TeamLists}

CenteredConfig == [DefaultConfig EXCEPT !.map_center_lat = 300000, !.map_center_lng = -810000]

InitTravel ==
  /\ \E records \in SeqsUpTo({TravelRow(l) : l \in SiteLats}, MaxSites) :
       sheet = SheetOf(records)
  /\ \E cfg \in TravelConfigs \cup {CenteredConfig} : Started(cfg)

\* ---- sheets with the 'Hospital Name' column at any of the first positions ---
\* the required columns with 'Hospital Name' as column pos
HeaderNames(pos) ==
  LET others == SetToSeq(REQUIRED_COLUMNS \ {"Hospital Name"})
  IN SubSeq(others, 1, pos - 1) \o <<"Hospital Name">> \o SubSeq(others, pos, Len(others))

NameCells == {NoneVal, StrVal(<<>>), StrVal(<<"H">>), StrVal(<<"G">>)}
OtherCells == {NoneVal, StrVal(<<"X">>)}

\* a data row: the name cell, the cell of the first other column, None elsewhere
SheetRow(pos, name, other) ==
  [j \in 1..Cardinality(REQUIRED_COLUMNS) |->
     IF j = pos THEN name
     ELSE IF j = (IF pos = 1 THEN 2 ELSE 1) THEN other
     ELSE NoneVal]

\* header rows: as named, with a padded 'Hospital Name' cell, with the last
\* required column missing
HeaderStyles == {"plain", "padded", "missing"}

SheetHeader(pos, style) ==
  LET names == HeaderNames(pos)
      cells == [j \in DOMAIN names |->
                  IF style = "padded" /\ j = pos
                    THEN StrVal(<<" ", names[j], " ">>)
                    ELSE HeaderCell(names[j])]
  IN IF style = "missing" THEN SubSeq(cells, 1, Len(cells) - 1) ELSE cells

InitLoad ==
  /\ \E pos \in 1..MaxNamePos, style \in HeaderStyles :
       \E rows \in SeqsUpTo({SheetRow(pos, n, o) : n \in NameCells, o \in OtherCells},
                            MaxRows) :
         sheet = [header |-> SheetHeader(pos, style), rows |-> rows]
  /\ Started(DefaultConfig)

\* ---- the stages of main() -------------------------------------------------
\* hospitals = load_excel(excel_path); sys.exit(1) on a missing required column
Load ==
  /\ pc = "start"
  /\ LET r == load_excel(sheet)
     IN IF r.exit
          THEN pc' = "exited" /\ UNCHANGED <<hospitals, loaded>>
          ELSE pc' = "loaded" /\ hospitals' = r.hospitals /\ loaded' = r.hospitals
  /\ UNCHANGED <<config, exc, rendered, sheet>>

\* hospitals = [enrich_hospital(h) for h in hospitals]; an exception of one
\* call ends the run
Enrich ==
  /\ pc = "loaded"
  /\ IF \E i \in 1..Len(hospitals) : EnrichRaises(hospitals[i])
       THEN pc' = "raised" /\ exc' = Raised("OverflowError", "enrich")
              /\ UNCHANGED hospitals
       ELSE /\ hospitals' = [i \in 1..Len(hospitals) |-> enrich_hospital(hospitals[i])]
            /\ pc' = "enriched"
            /\ UNCHANGED exc
  /\ UNCHANGED <<config, rendered, loaded, sheet>>

\* hospitals = calculate_infrastructure_scores(hospitals)
Score ==
  /\ pc = "enriched"
  /\ hospitals' = calculate_infrastructure_scores(hospitals)
  /\ pc' = "scored"
  /\ UNCHANGED <<config, exc, rendered, loaded, sheet>>

\* hospitals = assign_clinical_tiers(hospitals)
Tier ==
  /\ pc = "scored"
  /\ hospitals' = assign_clinical_tiers(hospitals)
  /\ pc' = "tiered"
  /\ UNCHANGED <<config, exc, rendered, loaded, sheet>>

\* hospitals = calculate_travel(hospitals, config); the first record with a
\* non-finite coordinate ends the run
Travel ==
  /\ pc = "tiered"
  /\ IF \E i \in 1..Len(hospitals) : TravelError(hospitals[i]) # ""
       THEN LET first == CHOOSE i \in 1..Len(hospitals) :
                           /\ TravelError(hospitals[i]) # ""
                           /\ \A j \in 1..(i - 1) : TravelError(hospitals[j]) = ""
            IN pc' = "raised" /\ exc' = Raised(TravelError(hospitals[first]), "travel")
                 /\ UNCHANGED hospitals
       ELSE /\ hospitals' = calculate_travel(hospitals, config)
            /\ pc' = "travelled"
            /\ UNCHANGED exc
  /\ UNCHANGED <<config, rendered, loaded, sheet>>

\* hospitals = assign_geographic_access(hospitals)
Access ==
  /\ pc = "travelled"
  /\ hospitals' = assign_geographic_access(hospitals)
  /\ pc' = "accessed"
  /\ UNCHANGED <<config, exc, rendered, loaded, sheet>>

\* if config["map_center_lat"] == 0 and config["map_center_lng"] == 0:
\*     config["map_center_lat"] = round(sum(h["lat"] ...) / len(hospitals), 4) ...
Center ==
  /\ pc = "accessed"
  /\ IF config.map_center_lat = 0 /\ config.map_center_lng = 0
       THEN IF Len(hospitals) = 0
              THEN pc' = "raised" /\ exc' = Raised("ZeroDivisionError", "center")
                   /\ UNCHANGED config
              ELSE /\ config' =
                        [config EXCEPT
                           !.map_center_lat =
                              RoundHalfEven(1000 * Sum([i \in 1..Len(hospitals) |->
                                                          hospitals[i]["lat"].n],
                                                       1..Len(hospitals)),
                                            Len(hospitals)),
                           !.map_center_lng =
                              RoundHalfEven(1000 * Sum([i \in 1..Len(hospitals) |->
                                                          hospitals[i]["lng"].n],
                                                       1..Len(hospitals)),
                                            Len(hospitals))]
                   /\ pc' = "centered"
                   /\ UNCHANGED exc
       ELSE pc' = "centered" /\ UNCHANGED <<config, exc>>
  /\ UNCHANGED <<hospitals, rendered, loaded, sheet>>

\* html = render_template(hospitals, config, template_path)
Render ==
  /\ pc = "centered"
  /\ rendered' = render_template(hospitals, config)
  /\ pc' = "rendered"
  /\ UNCHANGED <<hospitals, config, exc, loaded, sheet>>

\* the printed summary: round(sum(h['infrastructure_score'] ...) / len(hospitals))
Summary ==
  /\ pc = "rendered"
  /\ IF Len(hospitals) = 0
       THEN pc' = "raised" /\ exc' = Raised("ZeroDivisionError", "summary")
       ELSE pc' = "done" /\ UNCHANGED exc
  /\ UNCHANGED <<hospitals, config, rendered, loaded, sheet>>

Next ==
  Load \/ Enrich \/ Score \/ Tier \/ Travel \/ Access \/ Center \/ Render \/ Summary

Spec == Init /\ [][Next]_vars
SpecTier == InitTier /\ [][Next]_vars
SpecCells == InitCells /\ [][Next]_vars
SpecPop == InitPop /\ [][Next]_vars
SpecTravel == InitTravel /\ [][Next]_vars
SpecLoad == InitLoad /\ [][Next]_vars

\* ========================================================================
\* Properties
\* ========================================================================
Records == 1..Len(hospitals)
StagesFrom(stage) ==
  LET order == <<"loaded", "enriched", "scored", "tiered", "travelled", "accessed",
                 "centered", "rendered", "done">>
  IN {order[i] : i \in {j \in 1..Len(order) : \E m \in 1..j : order[m] = stage}}

IsScored == pc \in StagesFrom("scored")
ScoreAt(i) == hospitals[i]["infrastructure_score"].n
StrokesAt(i) == hospitals[i]["strokes_yr"].n
TierAt(i) == hospitals[i]["clinical_tier"].n

\* C1: after enrich_hospital and calculate_infrastructure_scores every
\* record's infrastructure_score is an integer between 0 and 100, whatever
\* the raw cells are (negative 'Strokes Per Year' included).
C1_ScoreWithinBounds ==
  IsScored =>
    \A i \in Records :
      /\ hospitals[i]["infrastructure_score"].k = "int"
      /\ 0 <= ScoreAt(i) /\ ScoreAt(i) <= 100

\* ---- the closed form of the infrastructure scheme, as the scheme is stated
SchemeCertWeight(cert) ==
  IF cert = CSC THEN 25
  ELSE IF cert = PSC THEN 20
  ELSE IF cert \in {TSC, TCC} THEN 15
  ELSE 5

SchemeFlagWeights ==
  {<<"thrombectomy_24_7", 15>>, <<"neuro_icu", 12>>, <<"cah", 10>>,
   <<"ct_scanner", 8>>, <<"telestroke", 8>>, <<"tpa_available", 5>>,
   <<"nsg_fellowship", 7>>, <<"nir_fellowship", 8>>}

RECURSIVE SumWeights(_)
SumWeights(S) ==
  IF S = {} THEN 0
  ELSE LET p == CHOOSE x \in S : TRUE IN p[2] + SumWeights(S \ {p})

SchemeFlagSum(h) == SumWeights({p \in SchemeFlagWeights : h[p[1]] = BoolVal(TRUE)})

SchemeMaxStrokes ==
  LET S == {StrokesAt(i) : i \in Records}
      m == IF S = {} THEN 0 ELSE CHOOSE x \in S : \A y \in S : y <= x
  IN IF m = 0 THEN 1 ELSE m

SchemeVolume(h) == Min(10, RoundHalfEven(10 * h["strokes_yr"].n, SchemeMaxStrokes))

\* C2: infrastructure_score = min(100, C + F + V): C the certification
\* weight, F the sum of the weights of the true flags, V the stroke-volume
\* share min(10, round(10 * strokes_yr / max_strokes)), max_strokes the
\* largest strokes_yr of the set, 1 when that is 0 or the set is empty.
C2_ScoreIsClampedSum ==
  IsScored =>
    \A i \in Records :
      ScoreAt(i) = Min(100, SchemeCertWeight(hospitals[i]["cert"].s)
                            + SchemeFlagSum(hospitals[i])
                            + SchemeVolume(hospitals[i]))

\* a scored set of two: one record's sum exceeds 100 and is clamped, the
\* other's volume share is the tie 2.5, rounded to 2
C2_Witness ==
  /\ pc = "scored"
  /\ Len(hospitals) = 2
  /\ \E i \in Records :
       /\ SchemeCertWeight(hospitals[i]["cert"].s) + SchemeFlagSum(hospitals[i])
            + SchemeVolume(hospitals[i]) > 100
       /\ ScoreAt(i) = 100
  /\ \E i \in Records :
       /\ 4 * StrokesAt(i) = SchemeMaxStrokes
       /\ SchemeVolume(hospitals[i]) = 2

\* ---- tiers ----------------------------------------------------------------
\* position (from 0) of record i in the descending, stable order of the keys
RankAt(i) ==
  Cardinality({j \in Records :
                 \/ ScoreAt(j) > ScoreAt(i)
                 \/ (ScoreAt(j) = ScoreAt(i) /\ StrokesAt(j) > StrokesAt(i))
                 \/ (ScoreAt(j) = ScoreAt(i) /\ StrokesAt(j) = StrokesAt(i) /\ j < i)})

CeilDiv(a, b) == (a + b - 1) \div b

\* C3 as stated: tier 1 is the first max(1, ceil(n/3)) records of the
\* descending order, tier 2 runs up to position max(2, ceil(2n/3)), tier 3 is
\* the rest.
C3_CeilingThirds ==
  pc = "tiered" =>
    LET n == Len(hospitals)
        c1 == Max(1, CeilDiv(n, 3))
        c2 == Max(2, CeilDiv(2 * n, 3))
    IN \A i \in Records :
         TierAt(i) = IF RankAt(i) < c1 THEN 1 ELSE IF RankAt(i) < c2 THEN 2 ELSE 3

\* C3 amended: the cuts are max(1, floor(n/3)) and max(2, floor(2n/3)).
C3_FloorThirds ==
  pc = "tiered" =>
    LET n == Len(hospitals)
        c1 == Max(1, n \div 3)
        c2 == Max(2, (2 * n) \div 3)
    IN \A i \in Records :
         /\ TierAt(i) = 1 <=> RankAt(i) < c1
         /\ TierAt(i) = 2 <=> (c1 <= RankAt(i) /\ RankAt(i) < c2)
         /\ TierAt(i) = 3 <=> c2 <= RankAt(i)

\* a ranked set of four records, where floor(n/3) and ceil(n/3) differ
C3_Witness ==
  /\ pc = "tiered"
  /\ Len(hospitals) = 4
  /\ Cardinality({i \in Records : TierAt(i) = 1}) = 1
  /\ Cardinality({i \in Records : TierAt(i) = 3}) = 2

\* C4: every record gets exactly one tier in {1, 2, 3} with the matching
\* label; with three or more records every tier is held by some record; a
\* single record is in tier 1; the stage never raises.
C4_TiersTotal ==
  /\ pc = "tiered" =>
       /\ \A i \in Records :
            /\ hospitals[i]["clinical_tier"].k = "int"
            /\ TierAt(i) \in {1, 2, 3}
            /\ hospitals[i]["clinical_tier_label"].s =
                 (IF TierAt(i) = 1 THEN <<"High Complexity Hub">>
                  ELSE IF TierAt(i) = 2 THEN <<"Regional Center">>
                  ELSE <<"Basic Capability">>)
       /\ Len(hospitals) >= 3 => \A t \in {1, 2, 3} : \E i \in Records : TierAt(i) = t
       /\ Len(hospitals) = 1 => TierAt(1) = 1
  /\ pc = "scored" => ENABLED Tier

\* three records with the same key: the tiers still split them 1, 2, 3
C4_Witness ==
  /\ pc = "tiered"
  /\ Len(hospitals) = 3
  /\ \A i \in Records : ScoreAt(i) = ScoreAt(1) /\ StrokesAt(i) = StrokesAt(1)
  /\ TierAt(1) = 1 /\ TierAt(2) = 2 /\ TierAt(3) = 3

\* C5 as stated: of two records, the one with the strictly higher score gets
\* tier 1 and the other tier 3.
C5_LowerGetsTier3 ==
  (pc = "tiered" /\ Len(hospitals) = 2) =>
    \A a, b \in Records :
      ScoreAt(a) > ScoreAt(b) => (TierAt(a) = 1 /\ TierAt(b) = 3)

\* C5 amended: the other record gets tier 2.
C5_LowerGetsTier2 ==
  (pc = "tiered" /\ Len(hospitals) = 2) =>
    \A a, b \in Records :
      ScoreAt(a) > ScoreAt(b) => (TierAt(a) = 1 /\ TierAt(b) = 2)

\* two ranked records, the second of the list with the higher score
C5_Witness ==
  /\ pc = "tiered"
  /\ Len(hospitals) = 2
  /\ ScoreAt(2) > ScoreAt(1)
  /\ TierAt(2) = 1

\* ---- field normalisation ---------------------------------------------------
IsEnriched == pc \in StagesFrom("enriched")
RawAt(i, col) == Get(hospitals[i], col, NoneVal)
RecognizedCerts == {CSC, PSC, TSC, TCC}

\* C6: after enrich_hospital the cert field is one of CSC, PSC, TSC, TCC,
\* None, and every raw value that is not CSC/PSC/TSC/TCC after trimming
\* (empty and whitespace-only text included) becomes "None".
C6_CertIsEnumerant ==
  IsEnriched =>
    \A i \in Records :
      LET raw == RawAt(i, "Stroke Certification")
          cert == hospitals[i]["cert"]
      IN /\ cert.k = "str"
         /\ cert.s \in RecognizedCerts \cup {NoneText}
         /\ ~(raw.k = "str" /\ Strip(raw.s) \in RecognizedCerts) => cert.s = NoneText

\* the commercial scheme's certification lookup, as the scheme is stated
StatedCommercialCertWeight(cert) ==
  IF cert = CSC THEN 20
  ELSE IF cert = PSC THEN 12
  ELSE IF cert \in {TSC, TCC} THEN 8
  ELSE 3

BoolFields ==
  {<<"Neurosurgery Fellowship", "nsg_fellowship", FALSE>>,
   <<"Neuro IR Fellowship", "nir_fellowship", FALSE>>,
   <<"CAH Status", "cah", FALSE>>,
   <<"Telestroke Capable", "telestroke", FALSE>>,
   <<"24/7 Thrombectomy", "thrombectomy_24_7", FALSE>>,
   <<"tPA Available", "tpa_available", FALSE>>,
   <<"Neuro ICU", "neuro_icu", FALSE>>,
   <<"CT Scanner", "ct_scanner", FALSE>>,
   <<"Spoke Hospital", "spoke_hospital", FALSE>>,
   <<"Medevac Available", "medevac_available", FALSE>>,
   <<"Road Access", "road_access", TRUE>>}

IsTrueLike(v) ==
  v.k = "str" /\ Lower(v.s) \in {<<"t", "r", "u", "e">>, <<"y", "e", "s">>, <<"1">>, <<"y">>}

\* C8 as stated: true for "true", "yes", "1", "y" in any case, the default
\* for an absent value, and the generic truthiness of every other value,
\* other non-empty strings included.
C8_OthersByTruthiness ==
  pc = "enriched" =>
    \A i \in Records : \A f \in BoolFields :
      LET raw == RawAt(i, f[1])
      IN hospitals[i][f[2]] =
           BoolVal(IF raw.k = "none" THEN f[3]
                   ELSE IF IsTrueLike(raw) THEN TRUE
                   ELSE Truthy(raw))

\* C8 amended: every other string is false; the generic truthiness is
\* returned for the values that are no strings.
C8_OtherStringsFalse ==
  pc = "enriched" =>
    \A i \in Records : \A f \in BoolFields :
      LET raw == RawAt(i, f[1])
      IN hospitals[i][f[2]] =
           BoolVal(IF raw.k = "none" THEN f[3]
                   ELSE IF raw.k = "str" THEN IsTrueLike(raw)
                   ELSE Truthy(raw))

\* 'Road Access' (default true) holds the text "no": road_access is false
C8_Witness ==
  /\ pc = "enriched"
  /\ Len(hospitals) = 1
  /\ RawAt(1, "Road Access") = StrVal(<<"n", "o">>)
  /\ hospitals[1]["road_access"] = BoolVal(FALSE)

\* <<raw column, derived field>> of every string field
StringFields ==
  {<<"Hospital Name", "name">>, <<"Short Name", "short_name">>,
   <<"Address", "address">>, <<"City", "city">>, <<"State", "state">>,
   <<"County", "county">>, <<"Phone", "phone">>, <<"IR Phone", "ir_phone">>,
   <<"Affiliation", "affiliation">>, <<"Buy Group/GPO", "gpo">>,
   <<"Comment", "comment">>, <<"Cert Body", "cert_body">>}

\* C9: every string field is the empty string when the raw column is absent,
\* None or empty, and the raw text without surrounding whitespace otherwise;
\* it is never null and never the text "None".
C9_StringFieldsTrimmed ==
  pc = "enriched" =>
    \A i \in Records : \A f \in StringFields :
      LET raw == RawAt(i, f[1])
          field == hospitals[i][f[2]]
      IN /\ field.k = "str"
         /\ field.s # NoneText
         /\ field.s = IF raw.k = "none" \/ raw = StrVal(<<>>)
                        THEN <<>>
                        ELSE Strip(PyStr(raw))

\* C10: safe_int and safe_float never raise on a raw scalar, so
\* enrich_hospital completes on every raw record.
C10_EnrichCompletes == ~(pc = "raised" /\ exc.stage = "enrich")

\* ------------------------------------------------------------------------
\* Demographics and epidemiology (specification SpecPop)
\* ------------------------------------------------------------------------
DerivedVolumes ==
  {"ischemic_volume", "lvo_volume", "mt_eligible", "avm_aneurysm_volume",
   "hemorrhagic_volume", "sah_volume", "ich_volume", "hemorrhagic_other",
   "total_stroke_volume"}

DerivedCounts == {"pop_65_plus", "pop_under_65", "effective_pop"} \cup DerivedVolumes

\* the raw integer of a column of the record as it was loaded
LoadedInt(i, col) == Get(loaded[i], col, IntVal(0)).n

\* C11: after enrich_hospital every derived count (pop_65_plus, pop_under_65,
\* effective_pop and the nine volumes) is a non-negative integer, whatever
\* integers the raw population columns hold, and when effective_pop is 0
\* every volume is exactly 0.
C11_CountsNonNegative ==
  IsEnriched =>
    \A i \in Records :
      /\ \A f \in DerivedCounts :
           hospitals[i][f].k = "int" /\ hospitals[i][f].n >= 0
      /\ hospitals[i]["effective_pop"].n = 0 =>
           \A f \in DerivedVolumes : hospitals[i][f] = IntVal(0)

\* the 65+ count the formula of C12 uses: the raw count, or 17% of the
\* catchment (truncated to an integer) when the raw count is 0
StatedAged(i) ==
  IF LoadedInt(i, "Population 65+") = 0
    THEN (17 * LoadedInt(i, "Catchment Population")) \div 100
    ELSE LoadedInt(i, "Population 65+")

\* effective_pop = (T - P) + 2.5 * P rounded, ischemic_volume =
\* round(effective_pop * 216 / 100000), for record i
StatedFormulaHolds(i) ==
  LET t == LoadedInt(i, "Catchment Population")
      a == StatedAged(i)
  IN /\ hospitals[i]["effective_pop"].n = RoundHalfEven(2 * (t - a) + 5 * a, 2)
     /\ hospitals[i]["ischemic_volume"].n =
          RoundHalfEven(hospitals[i]["effective_pop"].n * 216, 100000)

ScenarioHolds(i) ==
  (LoadedInt(i, "Catchment Population") = 680000
     /\ LoadedInt(i, "Population 65+") = 108800) =>
    /\ hospitals[i]["pop_65_pct"] = FloatVal(160)
    /\ hospitals[i]["effective_pop"] = IntVal(843200)
    /\ hospitals[i]["ischemic_volume"] = IntVal(1821)

\* C12 as stated: for every record with catchment T > 0 and 65+ count P
\* (17% of T when P is 0), effective_pop = (T - P) + 2.5 * P rounded and
\* ischemic_volume = round(effective_pop * 216 / 100000); T = 680000,
\* P = 108800 gives pop_65_pct 16.0, effective_pop 843200, ischemic_volume 1821.
C12_EffectivePopAnyCount ==
  IsEnriched =>
    \A i \in Records :
      /\ LoadedInt(i, "Catchment Population") > 0 => StatedFormulaHolds(i)
      /\ ScenarioHolds(i)

\* C12 amended: the same, for every record whose 65+ count lies between 0 and
\* the catchment population (0 <= P <= T).
C12_EffectivePopWithinCatchment ==
  IsEnriched =>
    \A i \in Records :
      /\ (LoadedInt(i, "Catchment Population") > 0
            /\ LoadedInt(i, "Population 65+") >= 0
            /\ LoadedInt(i, "Population 65+") <= LoadedInt(i, "Catchment Population"))
           => StatedFormulaHolds(i)
      /\ ScenarioHolds(i)

\* the worked example has been enriched, and so has a record left to imputation
C12_Witness ==
  /\ pc = "enriched"
  /\ \/ /\ LoadedInt(1, "Catchment Population") = 680000
        /\ hospitals[1]["ischemic_volume"] = IntVal(1821)
     \/ /\ Len(hospitals) = 2
        /\ LoadedInt(1, "Population 65+") = 0
        /\ hospitals[1]["pop_65_plus"].n > 0
        /\ hospitals[1]["ischemic_volume"].n > 0
        /\ LoadedInt(2, "Population 65+") > 0
        /\ hospitals[2]["effective_pop"].n > LoadedInt(2, "Catchment Population")

\* records i and j have the same 65+ share: both counts are left to the
\* imputation, or both are given in the same proportion of the catchment
SameShare(i, j) ==
  \/ LoadedInt(i, "Population 65+") = 0 /\ LoadedInt(j, "Population 65+") = 0
  \/ /\ LoadedInt(i, "Population 65+") # 0
     /\ LoadedInt(j, "Population 65+") # 0
     /\ LoadedInt(i, "Population 65+") * LoadedInt(j, "Catchment Population")
          = LoadedInt(j, "Population 65+") * LoadedInt(i, "Catchment Population")

\* C13: of two records that differ only in catchment size, with the same 65+
\* share, the one with the smaller catchment has no larger ischemic_volume,
\* hemorrhagic_volume or effective_pop.
C13_MonotoneInCatchment ==
  (IsEnriched /\ Len(hospitals) = 2) =>
    \A i, j \in Records :
      (SameShare(i, j)
         /\ LoadedInt(i, "Catchment Population") <= LoadedInt(j, "Catchment Population"))
        => /\ hospitals[i]["ischemic_volume"].n <= hospitals[j]["ischemic_volume"].n
           /\ hospitals[i]["hemorrhagic_volume"].n <= hospitals[j]["hemorrhagic_volume"].n
           /\ hospitals[i]["effective_pop"].n <= hospitals[j]["effective_pop"].n

\* the same over records whose 65+ counts are not negative
C13_MonotoneForCounts ==
  (IsEnriched /\ Len(hospitals) = 2) =>
    \A i, j \in Records :
      (SameShare(i, j)
         /\ LoadedInt(i, "Population 65+") >= 0
         /\ LoadedInt(j, "Population 65+") >= 0
         /\ LoadedInt(i, "Catchment Population") <= LoadedInt(j, "Catchment Population"))
        => /\ hospitals[i]["ischemic_volume"].n <= hospitals[j]["ischemic_volume"].n
           /\ hospitals[i]["hemorrhagic_volume"].n <= hospitals[j]["hemorrhagic_volume"].n
           /\ hospitals[i]["effective_pop"].n <= hospitals[j]["effective_pop"].n

\* a strict increase of both volumes has been observed
C13_SeenIncrease ==
  /\ pc = "enriched" /\ Len(hospitals) = 2
  /\ SameShare(1, 2)
  /\ LoadedInt(1, "Population 65+") > 0
  /\ LoadedInt(1, "Catchment Population") < LoadedInt(2, "Catchment Population")
  /\ hospitals[1]["ischemic_volume"].n < hospitals[2]["ischemic_volume"].n
  /\ hospitals[1]["hemorrhagic_volume"].n < hospitals[2]["hemorrhagic_volume"].n

\* ------------------------------------------------------------------------
\* Travel and access (specification SpecTravel)
\* ------------------------------------------------------------------------
IsTravelled == pc \in StagesFrom("travelled")

\* the bases in scan order: the primary base, then the configured members
Bases == <<[lat |-> config.rep_base_lat, lng |-> config.rep_base_lng,
            name |-> config.rep_name]>> \o config.team_members

\* distance of record i to base b, as the arc between them
ArcTo(i, b) ==
  haversine(Mdeg(hospitals[i]["lat"]), Mdeg(hospitals[i]["lng"]), Bases[b].lat, Bases[b].lng)

MinArc(i) ==
  CHOOSE a \in {ArcTo(i, b) : b \in 1..Len(Bases)} :
    \A b \in 1..Len(Bases) : a <= ArcTo(i, b)

\* the first base of the scan order at minimum distance
FirstNearest(i) ==
  CHOOSE b \in 1..Len(Bases) :
    /\ ArcTo(i, b) = MinArc(i)
    /\ \A c \in 1..(b - 1) : ArcTo(i, c) # MinArc(i)

\* C14: calculate_travel records as closest_team_member the first base, in the
\* order primary base then team_members, whose distance equals the minimum
\* over all bases; travel_miles and travel_time_min are those of the minimum
\* distance; with no team_members the primary base is chosen.
C14_FirstNearestBase ==
  IsTravelled =>
    \A i \in Records :
      /\ hospitals[i]["closest_team_member"] = StrVal(Bases[FirstNearest(i)].name)
      /\ hospitals[i]["travel_miles"] = FloatVal(TravelMiles(MinArc(i)))
      /\ hospitals[i]["travel_time_min"] = IntVal(TravelTime(MinArc(i)))
      /\ \A b \in 1..Len(Bases) :
           hospitals[i]["travel_time_min"].n <= TravelTime(ArcTo(i, b))
      /\ config.team_members = <<>> =>
           hospitals[i]["closest_team_member"] = StrVal(config.rep_name)

\* two team members tie for the first record, nearer than the primary base,
\* and the earlier one is recorded; the second record is nearest to the
\* primary base
C14_Witness ==
  /\ pc = "travelled" /\ Len(hospitals) = 2 /\ Len(Bases) = 3
  /\ ArcTo(1, 1) > ArcTo(1, 2) /\ ArcTo(1, 2) = ArcTo(1, 3)
  /\ Bases[2].lat # Bases[3].lat
  /\ hospitals[1]["closest_team_member"] = StrVal(<<"T", "1">>)
  /\ hospitals[1]["travel_time_min"].n > 0
  /\ ArcTo(2, 1) < ArcTo(2, 2) /\ ArcTo(2, 1) < ArcTo(2, 3)
  /\ hospitals[2]["closest_team_member"] = StrVal(<<"R">>)

\* C15: geographic_access follows from travel_time_min alone: below 30
\* "Local", from 30 below 120 "Short", from 120 below 240 "Long", from 240
\* "Flight Required"; every record has exactly one of the four categories.
C15_AccessBands ==
  pc \in StagesFrom("accessed") =>
    \A i \in Records :
      LET t == hospitals[i]["travel_time_min"].n
          a == hospitals[i]["geographic_access"]
      IN /\ a \in {StrVal(<<"Local">>), StrVal(<<"Short">>), StrVal(<<"Long">>),
                   StrVal(<<"Flight Required">>)}
         /\ a = StrVal(<<"Local">>) <=> t < 30
         /\ a = StrVal(<<"Short">>) <=> (30 <= t /\ t < 120)
         /\ a = StrVal(<<"Long">>) <=> (120 <= t /\ t < 240)
         /\ a = StrVal(<<"Flight Required">>) <=> t >= 240

\* a set with one record exactly 30 minutes away ("Short") and one exactly
\* 240 minutes away ("Flight Required")
C15_Witness ==
  /\ pc = "accessed" /\ Len(hospitals) = 2
  /\ hospitals[1]["travel_time_min"] = IntVal(30)
  /\ hospitals[1]["geographic_access"] = StrVal(<<"Short">>)
  /\ hospitals[2]["travel_time_min"] = IntVal(240)
  /\ hospitals[2]["geographic_access"] = StrVal(<<"Flight Required">>)

\* a record exactly 120 minutes away is "Long", next to one below 30 ("Local")
C15_SeenLong ==
  /\ pc = "accessed" /\ Len(hospitals) = 2
  /\ hospitals[1]["travel_time_min"].n < 30
  /\ hospitals[1]["geographic_access"] = StrVal(<<"Local">>)
  /\ hospitals[2]["travel_time_min"] = IntVal(120)
  /\ hospitals[2]["geographic_access"] = StrVal(<<"Long">>)

\* ------------------------------------------------------------------------
\* The run as a whole
\* ------------------------------------------------------------------------
\* C16: no run raises a division by zero: for every record set, the empty set
\* included, every division (stroke-volume share, pop_65_pct, map-centre
\* average, average infrastructure score of the page and of the printed
\* summary) has a non-zero denominator or is guarded.
C16_NoDivisionByZero ==
  ~(pc = "raised" /\ exc.type = "ZeroDivisionError")

\* C17: every stage only adds derived fields: every column key of the raw
\* input record, recognized or not, is still a key of the record with its
\* original value after the stages.
C17_RawColumnsKept ==
  pc # "raised" =>
    \A i \in Records :
      \A col \in DOMAIN loaded[i] :
        col \in DOMAIN hospitals[i] /\ hospitals[i][col] = loaded[i][col]

\* enrich, score, tier, travel and access run on records hs, with the config
\* of the run
StageSequence(hs) ==
  assign_geographic_access(
    calculate_travel(
      assign_clinical_tiers(
        calculate_infrastructure_scores(
          [i \in 1..Len(hs) |-> enrich_hospital(hs[i])])),
      config))

\* C18: running the stage sequence a second time, on the records the first
\* run produced and with the same config, leaves every field of every record
\* equal to its value after the first run.
C18_SecondRunSame ==
  pc = "accessed" =>
    /\ \A i \in Records : ~EnrichRaises(hospitals[i]) /\ TravelError(hospitals[i]) = ""
    /\ StageSequence(hospitals) = hospitals

\* the first run has produced two records of different score and tier
C18_Witness ==
  /\ pc = "accessed" /\ Len(hospitals) = 2
  /\ ScoreAt(1) > ScoreAt(2) /\ ScoreAt(2) > 0
  /\ StrokesAt(1) > 0
  /\ TierAt(1) # TierAt(2)
  /\ "geographic_access" \in DOMAIN hospitals[1]

\* records i and j have the same sort key (infrastructure_score, strokes_yr)
SameKey(i, j) == ScoreAt(i) = ScoreAt(j) /\ StrokesAt(i) = StrokesAt(j)

\* record i has the larger sort key
LargerKey(i, j) ==
  ScoreAt(i) > ScoreAt(j) \/ (ScoreAt(i) = ScoreAt(j) /\ StrokesAt(i) > StrokesAt(j))

\* C19: the list handed to the renderer holds every record once, ordered by
\* (infrastructure_score, strokes_yr) descending, and records with an equal
\* sort key are in their input order, in the rendered list and in the
\* ranking the tiers were assigned by.
C19_StableDescendingOrder ==
  /\ pc \in StagesFrom("rendered") =>
       LET order == rendered.hospitals
       IN /\ Len(order) = Len(hospitals)
          /\ {order[p] : p \in 1..Len(order)} = Records
          /\ \A p, q \in 1..Len(order) :
               p < q => \/ LargerKey(order[p], order[q])
                        \/ (SameKey(order[p], order[q]) /\ order[p] < order[q])
          /\ \A p, q \in 1..Len(order) :
               p < q => TierAt(order[p]) <= TierAt(order[q])
  /\ pc \in StagesFrom("tiered") =>
       \A i, j \in Records :
         /\ LargerKey(i, j) => TierAt(i) <= TierAt(j)
         /\ (SameKey(i, j) /\ i < j) => TierAt(i) <= TierAt(j)

\* the sort moved a later record to the front, and two records of equal key
\* kept their input order and fell into different tiers
C19_Witness ==
  /\ pc = "rendered" /\ Len(hospitals) >= 4
  /\ rendered.hospitals[1] = Len(hospitals)
  /\ \E i, j \in Records :
       /\ i < j /\ SameKey(i, j) /\ TierAt(i) < TierAt(j)
       /\ \E p, q \in 1..Len(hospitals) :
            p < q /\ rendered.hospitals[p] = i /\ rendered.hospitals[q] = j

\* C20: serialize_hospital returns a mapping whose keys are exactly the 57
\* listed ones, whatever other keys the record holds: no spreadsheet column
\* and no other non-listed key is a key of it.
C20_SerializedKeys ==
  pc \in StagesFrom("rendered") =>
    /\ Len(rendered.hospitals_json) = Len(hospitals)
    /\ \A p \in 1..Len(rendered.hospitals_json) :
         LET out == rendered.hospitals_json[p]
             h == hospitals[rendered.hospitals[p]]
         IN /\ DOMAIN out = SerializeKeys
            /\ Cardinality(DOMAIN out) = 57
            /\ DOMAIN out \cap (REQUIRED_COLUMNS \cup OPTIONAL_COLUMNS \cup {"Notes"}) = {}
            /\ \A k \in DOMAIN out : out[k] = Get(h, k, NoneVal)

\* a record holding an unrecognized column and its raw columns was serialized
C20_Witness ==
  /\ pc = "rendered" /\ Len(hospitals) = 1
  /\ "Notes" \in DOMAIN hospitals[1]
  /\ hospitals[1]["Notes"] = StrVal(<<"a", "b", "c">>)
  /\ "Hospital Name" \in DOMAIN hospitals[1]
  /\ Cardinality(DOMAIN hospitals[1]) > 57
  /\ Len(rendered.hospitals_json) = 1

\* ------------------------------------------------------------------------
\* Loading (specification SpecLoad)
\* ------------------------------------------------------------------------
HasLoaded == pc \notin {"start", "exited"}

\* the column of the sheet headed 'Hospital Name'
NameColumn ==
  CHOOSE j \in DOMAIN sheet.header : HeaderKey(sheet.header[j]) = "Hospital Name"

\* a name cell that holds a name
NonEmptyName(cell) == cell # NoneVal /\ cell # StrVal(<<>>)

\* the names of the source rows that have one, in row order
RECURSIVE NamesOf(_)
NamesOf(rows) ==
  IF rows = <<>> THEN <<>>
  ELSE (IF NonEmptyName(Head(rows)[NameColumn]) THEN <<Head(rows)[NameColumn]>> ELSE <<>>)
         \o NamesOf(Tail(rows))

\* C21: every record load_excel returns has a non-empty 'Hospital Name', and
\* every source row with a non-empty 'Hospital Name' is returned, whatever
\* the order of the columns in the header row.
C21_NamedRowsLoaded ==
  HasLoaded =>
    /\ \A i \in 1..Len(loaded) : NonEmptyName(loaded[i]["Hospital Name"])
    /\ [i \in 1..Len(loaded) |-> loaded[i]["Hospital Name"]] = NamesOf(sheet.rows)

\* the same for the sheets whose first column is 'Hospital Name'
C21_NamedRowsLoadedNameFirst ==
  (HasLoaded /\ NameColumn = 1) =>
    /\ \A i \in 1..Len(loaded) : NonEmptyName(loaded[i]["Hospital Name"])
    /\ [i \in 1..Len(loaded) |-> loaded[i]["Hospital Name"]] = NamesOf(sheet.rows)

\* a sheet with a named and an unnamed row was loaded name-first
C21_SeenNameFirst ==
  /\ pc = "loaded" /\ NameColumn = 1 /\ Len(sheet.rows) = 2 /\ Len(loaded) = 1
  /\ loaded[1]["Hospital Name"] = StrVal(<<"G">>)

\* ------------------------------------------------------------------------
\* Tiers along the sort key (specification SpecTier)
\* ------------------------------------------------------------------------
\* C22: after assign_clinical_tiers, of any two records the one whose
\* (infrastructure_score, strokes_yr) is lexicographically greater has no
\* larger clinical_tier, and clinical_tier never decreases along the list
\* render_template passes to the renderer.
C22_TiersMonotoneInKey ==
  /\ pc \in StagesFrom("tiered") =>
       \A a, b \in Records :
         (\/ hospitals[a]["infrastructure_score"].n > hospitals[b]["infrastructure_score"].n
          \/ /\ hospitals[a]["infrastructure_score"].n = hospitals[b]["infrastructure_score"].n
             /\ hospitals[a]["strokes_yr"].n > hospitals[b]["strokes_yr"].n)
           => hospitals[a]["clinical_tier"].n <= hospitals[b]["clinical_tier"].n
  /\ pc \in StagesFrom("rendered") =>
       \A p \in 1..(Len(rendered.hospitals) - 1) :
         hospitals[rendered.hospitals[p]]["clinical_tier"].n
           <= hospitals[rendered.hospitals[p + 1]]["clinical_tier"].n

\* three records of three different keys, loaded in ascending key order, hold
\* the three tiers and are rendered in the opposite order
C22_Witness ==
  /\ pc = "rendered" /\ Len(hospitals) = 3
  /\ LargerKey(3, 2) /\ LargerKey(2, 1)
  /\ TierAt(3) = 1 /\ TierAt(2) = 2 /\ TierAt(1) = 3
  /\ rendered.hospitals = <<3, 2, 1>>

====
